---- MODULE Spec2Model ----
(***************************************************************************)
(* A model of src/src/components/InvoicePage.tsx: the invoice editor's     *)
(* React state, its handlers, its effects and what each render shows.      *)
(*                                                                         *)
(* Texts are sequences of one-character strings, so that parseFloat,       *)
(* toString, toFixed, replace and the template literal of the payment      *)
(* payload are computed character by character as the code computes them.  *)
(* Numbers are exact decimals [k, m, e] standing for m * 10^(-e); k tells  *)
(* a number from NaN and from undefined.                                   *)
(***************************************************************************)
EXTENDS Integers, Sequences, FiniteSets, TLC

(***************************************************************************)
(* Bounds of the model.                                                    *)
(***************************************************************************)
MaxPages == 3
MaxLines == 2
MaxPending == 2
MaxEdits == 3
\* the largest number of line items of a loaded invoice
MaxLoadedLines == 41
\* the largest row index a remove line is called with
MaxRemoveIndex == 3

(***************************************************************************)
(* Texts.                                                                  *)
(***************************************************************************)
Digits == {"0", "1", "2", "3", "4", "5", "6", "7", "8", "9"}

DigitVal(c) ==
  CASE c = "0" -> 0 [] c = "1" -> 1 [] c = "2" -> 2 [] c = "3" -> 3
    [] c = "4" -> 4 [] c = "5" -> 5 [] c = "6" -> 6 [] c = "7" -> 7
    [] c = "8" -> 8 [] c = "9" -> 9

DigitChar(d) ==
  CASE d = 0 -> "0" [] d = 1 -> "1" [] d = 2 -> "2" [] d = 3 -> "3"
    [] d = 4 -> "4" [] d = 5 -> "5" [] d = 6 -> "6" [] d = 7 -> "7"
    [] d = 8 -> "8" [] d = 9 -> "9"

RECURSIVE Pow10(_)
Pow10(n) == IF n = 0 THEN 1 ELSE 10 * Pow10(n - 1)

\* String.prototype.includes for a one-character needle
Includes(s, c) == \E i \in 1..Len(s) : s[i] = c

\* String.prototype.replace with a string pattern: the first occurrence only
Replace(s, from, to) ==
  IF ~Includes(s, from) THEN s
  ELSE LET i == CHOOSE j \in 1..Len(s) :
                  s[j] = from /\ \A k \in 1..(j - 1) : s[k] # from
       IN [j \in 1..Len(s) |-> IF j = i THEN to ELSE s[j]]

\* the decimal digits of a natural number
RECURSIVE NatText(_)
NatText(n) == IF n < 10 THEN <<DigitChar(n)>>
              ELSE NatText(n \div 10) \o <<DigitChar(n % 10)>>

\* the digits of f, padded with zeros on the left to width w
RECURSIVE PadText(_, _)
PadText(f, w) == IF w = 0 THEN <<>>
                 ELSE PadText(f \div 10, w - 1) \o <<DigitChar(f % 10)>>

\* the lines of a template literal, joined by its line breaks
RECURSIVE JoinLines(_)
JoinLines(ls) ==
  IF Len(ls) = 0 THEN <<>>
  ELSE IF Len(ls) = 1 THEN ls[1]
  ELSE ls[1] \o <<"\n">> \o JoinLines(Tail(ls))

(***************************************************************************)
(* Numbers.                                                                *)
(***************************************************************************)
NaN == [k |-> "nan", m |-> 0, e |-> 0]
Undefined == [k |-> "undefined", m |-> 0, e |-> 0]

\* m * 10^(-e) without trailing zeros in the fraction
RECURSIVE Num(_, _)
Num(m, e) == IF e > 0 /\ m % 10 = 0 THEN Num(m \div 10, e - 1)
             ELSE [k |-> "num", m |-> m, e |-> e]

Zero == Num(0, 0)

\* a value used as a condition: undefined, NaN and 0 are falsy
Truthy(x) == x.k = "num" /\ x.m # 0

Mul(a, b) == Num(a.m * b.m, a.e + b.e)

Add(a, b) ==
  LET e == IF a.e > b.e THEN a.e ELSE b.e
  IN Num(a.m * Pow10(e - a.e) + b.m * Pow10(e - b.e), e)

\* the length of the run of digits of s that starts at position i
RECURSIVE DigitRun(_, _)
DigitRun(s, i) == IF i <= Len(s) /\ s[i] \in Digits THEN 1 + DigitRun(s, i + 1)
                  ELSE 0

\* the value of the n digits of s that start at position i
RECURSIVE DigitsVal(_, _, _)
DigitsVal(s, i, n) == IF n = 0 THEN 0
                      ELSE 10 * DigitsVal(s, i, n - 1) + DigitVal(s[i + n - 1])

\* the number of leading blanks of s from position i
RECURSIVE BlankRun(_, _)
BlankRun(s, i) == IF i <= Len(s) /\ s[i] = " " THEN 1 + BlankRun(s, i + 1) ELSE 0

\* the exponent part of a decimal literal that starts at position x of s: e
\* or E, a sign or none, digits; 0 if there is none
ExponentAt(s, x) ==
  LET marked == x <= Len(s) /\ s[x] \in {"e", "E"}
      signed == marked /\ x + 1 <= Len(s) /\ s[x + 1] \in {"+", "-"}
      i == IF signed THEN x + 2 ELSE x + 1
      n == IF marked THEN DigitRun(s, i) ELSE 0
  IN IF signed /\ s[x + 1] = "-" THEN 0 - DigitsVal(s, i, n) ELSE DigitsVal(s, i, n)

\* m * 10^(-e) for an e of either sign
Scaled(m, e) == IF e >= 0 THEN Num(m, e) ELSE Num(m * Pow10(0 - e), 0)

\* parseFloat: leading blanks, a sign, digits, a period and digits, an
\* exponent part; the longest such prefix is read and the rest of the text
\* is ignored
ParseFloat(s) ==
  LET b == 1 + BlankRun(s, 1)
      signed == b <= Len(s) /\ s[b] \in {"+", "-"}
      neg == signed /\ s[b] = "-"
      i == IF signed THEN b + 1 ELSE b
      ni == DigitRun(s, i)
      dot == i + ni <= Len(s) /\ s[i + ni] = "."
      nf == IF dot THEN DigitRun(s, i + ni + 1) ELSE 0
      mag == DigitsVal(s, i, ni) * Pow10(nf) + DigitsVal(s, i + ni + 1, nf)
  IN IF ni = 0 /\ nf = 0 THEN NaN
     ELSE Scaled(IF neg THEN 0 - mag ELSE mag,
                 nf - ExponentAt(s, i + ni + (IF dot THEN 1 + nf ELSE 0)))

\* Number.prototype.toString: decimal notation, and exponent notation for
\* a number below 10^(-6); the numbers of the model stay below 10^21,
\* where exponent notation starts again
NumToString(x) ==
  IF x.k = "nan" THEN <<"N", "a", "N">>
  ELSE LET mag == IF x.m < 0 THEN 0 - x.m ELSE x.m
           p == Pow10(x.e)
           ds == NatText(mag)
           n == Len(ds) - x.e
       IN (IF x.m < 0 THEN <<"-">> ELSE <<>>)
          \o (IF mag # 0 /\ n <= 0 - 6
              THEN <<ds[1]>> \o (IF Len(ds) > 1 THEN <<".">> \o Tail(ds) ELSE <<>>)
                   \o <<"e", "-">> \o NatText(1 - n)
              ELSE NatText(mag \div p)
                   \o (IF x.e = 0 THEN <<>> ELSE <<".">> \o PadText(mag % p, x.e)))

\* Number.prototype.toFixed(2): the nearest number of hundredths, the larger
\* one when two are equally near; the sign is written for every x < 0
ToFixed2(x) ==
  LET mag == IF x.m < 0 THEN 0 - x.m ELSE x.m
      n == IF x.e <= 2 THEN mag * Pow10(2 - x.e)
           ELSE (mag + Pow10(x.e - 2) \div 2) \div Pow10(x.e - 2)
  IN (IF x.m < 0 THEN <<"-">> ELSE <<>>)
     \o NatText(n \div 100) \o <<".">> \o PadText(n % 100, 2)

(***************************************************************************)
(* Texts of the model: what a user types and what an invoice holds.        *)
(***************************************************************************)
Empty == <<>>
TextDE12 == <<"D", "E", "1", "2">>
TextABCD == <<"A", "B", "C", "D">>
TextJane == <<"J", "a", "n", "e">>
TextACME == <<"A", "C", "M", "E">>
TextINV1 == <<"I", "N", "V", "-", "1">>
TextEuro == <<"E", "U", "R">>
TextDollar == <<"$">>
LabelVat19 == <<"V", "A", "T", " ", "1", "9", "%">>
LabelVat7 == <<"7", "%">>
LabelNoTax == <<"n", "o", " ", "t", "a", "x">>
LabelTwoRates == <<"7", "%", " ", "o", "f", "f", ",", " ", "1", "9", "%", " ", "V", "A", "T">>

\* typed into a quantity field
QuantityTexts == {<<"1", ".", "5">>, <<"0", ".", "1", "2", "0">>, <<"x">>}
\* typed into a rate field
RateTexts == {<<"2">>, <<"0", ".", "2", "0">>}
\* typed into a description field
DescriptionTexts == {<<"a">>}
\* a ten-millionth
TextTiny == <<"0", ".", "0", "0", "0", "0", "0", "0", "1">>
\* typed or pasted into a quantity or rate field, one text of each shape
TypedTexts ==
  {<<>>, <<"x">>, <<"0">>, <<"2">>, <<"1", ".", "5">>, <<"1", "2", ".">>,
   <<"1", "2", ".", "0">>, <<"0", ".", "1", "2", "0">>,
   <<"1", "2", ".", "5", "0">>, TextTiny}
\* typed or pasted into a rate field: the product of two ten-millionths
\* is beyond the integers of the model
TypedRateTexts == TypedTexts \ {TextTiny}
\* typed into the fields that handleChange serves: <<field, text>>
FieldEdits ==
  {<<"iban", Empty>>, <<"name", TextJane>>, <<"invoiceTitle", TextINV1>>,
   <<"taxLabel", LabelVat7>>, <<"taxLabel", LabelNoTax>>,
   <<"currency", TextDollar>>}

(***************************************************************************)
(* The invoice.  A page of pageProductLines is [defined, items]: an array  *)
(* slot that was never assigned reads as undefined.  An absent             *)
(* pageProductLines is the empty sequence: the code treats undefined and   *)
(* [] alike wherever it reads the field (lines 45, 52, 64-67, 72, 132,     *)
(* 198).                                                                   *)
(***************************************************************************)
PageOf(items) == [defined |-> TRUE, items |-> items]
UndefinedPage == [defined |-> FALSE, items |-> <<>>]

\* '../data/initialData': a blank line item
initialProductLine == [description |-> Empty, quantity |-> Empty, rate |-> Empty]

\* '../data/initialData': an empty invoice with one blank line item
initialInvoice ==
  [name |-> Empty, companyName |-> Empty, iban |-> Empty, bic |-> Empty,
   invoiceTitle |-> Empty, taxLabel |-> LabelVat19, currency |-> TextEuro,
   productLines |-> <<initialProductLine>>, pageProductLines |-> <<>>]

\* an invoice saved by an earlier session and passed in as the data prop
savedInvoice ==
  [name |-> Empty, companyName |-> TextACME, iban |-> TextDE12, bic |-> TextABCD,
   invoiceTitle |-> Empty, taxLabel |-> LabelVat19, currency |-> TextEuro,
   productLines |-> <<initialProductLine>>,
   pageProductLines |->
     <<PageOf(<<[description |-> <<"a">>, quantity |-> <<"2">>, rate |-> <<"2">>]>>),
       PageOf(<<[description |-> <<>>, quantity |-> <<"1", ",", "5">>,
                 rate |-> <<"2">>]>>)>>]

\* an invoice with one page that holds one blank line item, under a label
\* without a rate
draftInvoice ==
  [initialInvoice EXCEPT !.pageProductLines = <<PageOf(<<initialProductLine>>)>>,
                         !.taxLabel = LabelNoTax]

\* a saved invoice whose first page lists three different line items
listedInvoice ==
  [savedInvoice EXCEPT !.pageProductLines[1] =
     PageOf(<<[description |-> <<"a">>, quantity |-> <<"2">>, rate |-> <<"2">>],
              [description |-> <<"b">>, quantity |-> <<"1">>, rate |-> <<"2">>],
              [description |-> <<"c">>, quantity |-> <<"3">>, rate |-> <<"2">>]>>)]

\* the data prop: absent (the initial invoice is used) or a saved invoice
DataProps == {initialInvoice, savedInvoice}

\* n line items of an invoice written by the version of the editor that
\* kept its lines in productLines, told apart by their descriptions
LoadedLines(n) ==
  [i \in 1..n |-> [description |-> NatText(i), quantity |-> <<"1">>, rate |-> <<"2">>]]

\* the invoices the data prop can hold: every field empty or filled, the
\* pages absent or present, productLines of the lengths around the
\* capacity of an export page
LoadedInvoices ==
  {[name |-> n, companyName |-> c, iban |-> i, bic |-> b, invoiceTitle |-> t,
    taxLabel |-> l, currency |-> TextEuro, productLines |-> LoadedLines(k),
    pageProductLines |-> p] :
     n \in {Empty, TextJane}, c \in {Empty, TextACME}, i \in {Empty, TextDE12},
     b \in {Empty, TextABCD}, t \in {Empty, TextINV1},
     l \in {LabelVat19, LabelNoTax, LabelTwoRates},
     k \in {0, 1, 20, 21, 40, MaxLoadedLines},
     p \in {<<>>, savedInvoice.pageProductLines}}

\* arr[idx] = page on a copy of arr, idx counted from 0: an index past the
\* end lengthens the array and leaves the slots between undefined
SetAt(arr, idx, page) ==
  [j \in 1..(IF idx + 1 > Len(arr) THEN idx + 1 ELSE Len(arr)) |->
     IF j = idx + 1 THEN page
     ELSE IF j <= Len(arr) THEN arr[j] ELSE UndefinedPage]

\* arr[idx], idx counted from 0, as a condition: undefined is falsy, every
\* array is truthy
HasPage(arr, idx) == idx + 1 \in 1..Len(arr) /\ arr[idx + 1].defined

(***************************************************************************)
(* Aggregation.                                                            *)
(***************************************************************************)
\* lines 187-191
calculateAmount(quantity, rate) ==
  LET quantityNumber == ParseFloat(quantity)
      rateNumber == ParseFloat(rate)
      amount == IF Truthy(quantityNumber) /\ Truthy(rateNumber)
                THEN Mul(quantityNumber, rateNumber) ELSE Zero
  IN ToFixed2(amount)

\* lines 201-203: the amount of one line inside the subtotal effect
LineAmount(productLine) ==
  LET quantityNumber == ParseFloat(productLine.quantity)
      rateNumber == ParseFloat(productLine.rate)
  IN IF Truthy(quantityNumber) /\ Truthy(rateNumber)
     THEN Mul(quantityNumber, rateNumber) ELSE Zero

\* lines 200-206: pageItems.forEach, adding to the running subTotal
RECURSIVE SumItems(_, _)
SumItems(pageItems, acc) ==
  IF pageItems = <<>> THEN acc
  ELSE SumItems(Tail(pageItems), Add(acc, LineAmount(Head(pageItems))))

\* SumPages with a fault: only the last page is summed
SumPages_LastPageOnly(pages, acc) ==
  IF pages = <<>> THEN acc ELSE SumItems(pages[Len(pages)].items, acc)

\* lines 195-208: pageProductLines.forEach over the pages in order
RECURSIVE SumPages(_, _)
SumPages(pages, acc) ==
  IF pages = <<>> THEN acc
  ELSE SumPages(Tail(pages), SumItems(Head(pages).items, acc))

\* MatchStart with a fault: the last match is taken
MatchStart_LastMatch(label) ==
  LET hits == {i \in 1..Len(label) :
                 /\ DigitRun(label, i) > 0
                 /\ i + DigitRun(label, i) <= Len(label)
                 /\ label[i + DigitRun(label, i)] = "%"
                 /\ (i = 1 \/ label[i - 1] \notin Digits)}
  IN IF hits = {} THEN 0 ELSE CHOOSE i \in hits : \A j \in hits : i >= j

\* line 214: the first match of /(\d+)%/ in the label; 0 marks no match
MatchStart(label) ==
  LET hits == {i \in 1..Len(label) :
                 /\ DigitRun(label, i) > 0
                 /\ i + DigitRun(label, i) <= Len(label)
                 /\ label[i + DigitRun(label, i)] = "%"}
  IN IF hits = {} THEN 0 ELSE CHOOSE i \in hits : \A j \in hits : i <= j

\* lines 214-215
TaxRate(label) ==
  LET i == MatchStart(label)
  IN IF i = 0 THEN Zero ELSE ParseFloat(SubSeq(label, i, i + DigitRun(label, i) - 1))

\* line 216
SaleTaxOf(sub, label) ==
  IF Truthy(sub) THEN Num(Mul(sub, TaxRate(label)).m, Mul(sub, TaxRate(label)).e + 2)
  ELSE Zero

(***************************************************************************)
(* The payment payload.                                                    *)
(***************************************************************************)
\* a || b on texts: the empty text is falsy
OrText(a, b) == IF a # <<>> THEN a ELSE b

TextRechnung == <<"R", "e", "c", "h", "n", "u", "n", "g">>
PaymentTaxRate == Num(19, 2)

\* generateSepaQRData with a fault: the currency field is written in place
\* of EUR
generateSepaQRData_CurrencyField(inv, sub) ==
  LET subtotal == IF Truthy(sub) THEN sub ELSE Zero
      total == Add(subtotal, Mul(subtotal, PaymentTaxRate))
  IN JoinLines(<<
       <<"B", "C", "D">>, <<"0", "0", "2">>, <<"1">>, <<"S", "C", "T">>,
       inv.bic, OrText(inv.name, inv.companyName), inv.iban,
       inv.currency \o ToFixed2(total),
       <<>>, <<>>, OrText(inv.invoiceTitle, TextRechnung) >>)

\* generateSepaQRData with a fault: the tax of the label is added in place
\* of 19% of the subtotal
generateSepaQRData_LabelTax(inv, sub) ==
  LET subtotal == IF Truthy(sub) THEN sub ELSE Zero
      total == Add(subtotal, SaleTaxOf(subtotal, inv.taxLabel))
  IN JoinLines(<<
       <<"B", "C", "D">>, <<"0", "0", "2">>, <<"1">>, <<"S", "C", "T">>,
       inv.bic, OrText(inv.name, inv.companyName), inv.iban,
       <<"E", "U", "R">> \o ToFixed2(total),
       <<>>, <<>>, OrText(inv.invoiceTitle, TextRechnung) >>)

\* generateSepaQRData with a fault: the company name is preferred to the
\* name
generateSepaQRData_CompanyFirst(inv, sub) ==
  LET subtotal == IF Truthy(sub) THEN sub ELSE Zero
      total == Add(subtotal, Mul(subtotal, PaymentTaxRate))
  IN JoinLines(<<
       <<"B", "C", "D">>, <<"0", "0", "2">>, <<"1">>, <<"S", "C", "T">>,
       inv.bic, OrText(inv.companyName, inv.name), inv.iban,
       <<"E", "U", "R">> \o ToFixed2(total),
       <<>>, <<>>, OrText(inv.invoiceTitle, TextRechnung) >>)

\* lines 93-114, called while rendering the edit-mode QR code
generateSepaQRData(inv, sub) ==
  LET subtotal == IF Truthy(sub) THEN sub ELSE Zero
      tax == Mul(subtotal, PaymentTaxRate)
      total == Add(subtotal, tax)
      recipient == OrText(OrText(inv.name, inv.companyName), <<>>)
      iban == OrText(inv.iban, <<>>)
      bic == OrText(inv.bic, <<>>)
      reference == OrText(inv.invoiceTitle, TextRechnung)
  IN JoinLines(<<
       <<"B", "C", "D">>,
       <<"0", "0", "2">>,
       <<"1">>,
       <<"S", "C", "T">>,
       bic,
       recipient,
       iban,
       <<"E", "U", "R">> \o ToFixed2(total),
       <<>>,
       <<>>,
       reference >>)

\* qrData with a fault: one of the two empty lines is missing
qrData_OneEmptyLine(inv, sub) ==
  LET subtotal == IF Truthy(sub) THEN sub ELSE Zero
      total == Add(subtotal, Mul(subtotal, PaymentTaxRate))
  IN JoinLines(<<
       <<"B", "C", "D">>, <<"0", "0", "2">>, <<"1">>, <<"S", "C", "T">>,
       inv.bic, OrText(inv.name, inv.companyName), inv.iban,
       <<"E", "U", "R">> \o ToFixed2(total),
       <<>>, OrText(inv.invoiceTitle, TextRechnung) >>)

\* qrData with a fault: the amount is the subtotal without the 19% tax
qrData_WithoutTax(inv, sub) ==
  LET subtotal == IF Truthy(sub) THEN sub ELSE Zero
  IN JoinLines(<<
       <<"B", "C", "D">>, <<"0", "0", "2">>, <<"1">>, <<"S", "C", "T">>,
       inv.bic, OrText(inv.name, inv.companyName), inv.iban,
       <<"E", "U", "R">> \o ToFixed2(subtotal),
       <<>>, <<>>, OrText(inv.invoiceTitle, TextRechnung) >>)

\* lines 230-249, the payload built inside the QR effect
qrData(inv, sub) ==
  LET subtotal == IF Truthy(sub) THEN sub ELSE Zero
      tax == Mul(subtotal, PaymentTaxRate)
      total == Add(subtotal, tax)
      recipient == OrText(OrText(inv.name, inv.companyName), <<>>)
      iban == OrText(inv.iban, <<>>)
      bic == OrText(inv.bic, <<>>)
      reference == OrText(inv.invoiceTitle, TextRechnung)
  IN JoinLines(<<
       <<"B", "C", "D">>,
       <<"0", "0", "2">>,
       <<"1">>,
       <<"S", "C", "T">>,
       bic,
       recipient,
       iban,
       <<"E", "U", "R">> \o ToFixed2(total),
       <<>>,
       <<>>,
       reference >>)

\* QRCode.toDataURL: the image of a payload, as a data URL; two payloads
\* have the same image only if they are the same text
DataURL(payload) == <<"d", "a", "t", "a", ":">> \o payload

(***************************************************************************)
(* The state of one mounted InvoicePage.                                   *)
(***************************************************************************)
VARIABLES
  pdfMode,          \* the pdfMode prop
  invoice,          \* useState, line 33
  subTotal,         \* useState, line 34
  saleTax,          \* useState, line 35
  qrCodeDataUrl,    \* useState, line 36
  currentPage,      \* useState, line 37
  totalPages,       \* useState, line 38
  phase,            \* "render": a render is due; "effects": the effects of
                    \* the last render are due; "idle"; "crashed"
  lastDeps,         \* the dependencies the effects last ran with
  view,             \* what the last render put on the screen
  pending,          \* the payloads whose QRCode.toDataURL has not settled
  nEdits            \* the number of user events so far

vars == <<pdfMode, invoice, subTotal, saleTax, qrCodeDataUrl, currentPage,
          totalPages, phase, lastDeps, view, pending, nEdits>>

\* the dependency list of the QR effect, line 259
QrDeps == <<invoice.iban, invoice.bic, invoice.name, invoice.companyName,
            invoice.invoiceTitle, subTotal>>

\* the dependency lists of lines 48, 58, 211, 219, 259 at the current state
Deps(mounted) ==
  [mounted |-> mounted, pages |-> invoice.pageProductLines,
   totalPages |-> totalPages, subTotal |-> subTotal,
   taxLabel |-> invoice.taxLabel, qr |-> QrDeps]

NoView == [mounted |-> FALSE]

\* a new InvoicePage with the props data and pdfMode, lines 32-38
Mount(data, mode) ==
  [pdfMode |-> mode, invoice |-> data, subTotal |-> Undefined,
   saleTax |-> Undefined, qrCodeDataUrl |-> <<>>, currentPage |-> 1,
   totalPages |-> 1,
   lastDeps |-> [mounted |-> FALSE, pages |-> data.pageProductLines,
                 totalPages |-> 1, subTotal |-> Undefined,
                 taxLabel |-> data.taxLabel,
                 qr |-> <<data.iban, data.bic, data.name, data.companyName,
                          data.invoiceTitle, Undefined>>]]

Init ==
  /\ \E data \in DataProps, mode \in BOOLEAN :
       LET st == Mount(data, mode)
       IN /\ pdfMode = st.pdfMode
          /\ invoice = st.invoice
          /\ subTotal = st.subTotal
          /\ saleTax = st.saleTax
          /\ qrCodeDataUrl = st.qrCodeDataUrl
          /\ currentPage = st.currentPage
          /\ totalPages = st.totalPages
          /\ lastDeps = st.lastDeps
  /\ phase = "render"
  /\ view = NoView
  /\ pending = <<>>
  /\ nEdits = 0

(***************************************************************************)
(* Rendering.                                                              *)
(***************************************************************************)
\* lines 61-68 with pdfMode false, the only mode that calls it (line 719)
getCurrentPageItems ==
  IF HasPage(invoice.pageProductLines, currentPage - 1)
  THEN invoice.pageProductLines[currentPage].items ELSE <<>>

\* lines 454-502: the rows of a table; the header row of lines 419-452 is
\* the field tableHeader of the page that holds the table
renderTable(items) ==
  [i \in 1..Len(items) |->
     [description |-> items[i].description,
      quantity |-> items[i].quantity,
      rate |-> items[i].rate,
      amount |-> Replace(calculateAmount(items[i].quantity, items[i].rate), ".", ","),
      visible |-> ~(pdfMode /\ items[i].description = <<>>)]]

\* x?.toFixed(2).replace('.', ','): nothing is shown for undefined
MoneyText(x) == IF x.k = "undefined" THEN <<>> ELSE Replace(ToFixed2(x), ".", ",")

\* lines 506-682: what the footer shows
renderFooter ==
  [subTotalText |-> MoneyText(subTotal),
   saleTaxText |-> MoneyText(saleTax),
   currency |-> invoice.currency,
   totalText |-> Replace(ToFixed2(IF subTotal.k # "undefined" /\ saleTax.k # "undefined"
                                  THEN Add(subTotal, saleTax) ELSE Zero), ".", ","),
   navPages |-> IF ~pdfMode /\ totalPages > 1 THEN totalPages ELSE 0,
   qr |-> IF invoice.iban # <<>> /\ invoice.bic # <<>>
          THEN IF pdfMode /\ qrCodeDataUrl # <<>>
               THEN [kind |-> "image", value |-> qrCodeDataUrl]
               ELSE IF ~pdfMode
                    THEN [kind |-> "canvas", value |-> generateSepaQRData(invoice, subTotal)]
                    ELSE [kind |-> "none", value |-> <<>>]
          ELSE [kind |-> "none", value |-> <<>>]]

itemsPerPDFPage == 20

Max(a, b) == IF a > b THEN a ELSE b
Min(a, b) == IF a < b THEN a ELSE b
\* Math.ceil(n / d) for n >= 0, d > 0
Ceil(n, d) == (n + d - 1) \div d

\* renderPDFPages with a fault: the number of pages is rounded down
renderPDFPages_RoundsDown ==
  LET totalPDFPages == Max(1, Len(invoice.productLines) \div itemsPerPDFPage)
  IN [p \in 1..totalPDFPages |->
        LET startIdx == (p - 1) * itemsPerPDFPage
            endIdx == Min(startIdx + itemsPerPDFPage, Len(invoice.productLines))
        IN [header |-> p = 1, tableHeader |-> TRUE,
            rows |-> renderTable(SubSeq(invoice.productLines, startIdx + 1, endIdx)),
            footer |-> p = totalPDFPages]]

\* renderPDFPages with a fault: every page carries the footer
renderPDFPages_FooterOnEveryPage ==
  LET totalPDFPages == Max(1, Ceil(Len(invoice.productLines), itemsPerPDFPage))
  IN [p \in 1..totalPDFPages |->
        LET startIdx == (p - 1) * itemsPerPDFPage
            endIdx == Min(startIdx + itemsPerPDFPage, Len(invoice.productLines))
        IN [header |-> p = 1, tableHeader |-> TRUE,
            rows |-> renderTable(SubSeq(invoice.productLines, startIdx + 1, endIdx)),
            footer |-> TRUE]]

\* lines 685-712 with pdfMode true
renderPDFPages ==
  LET totalPDFPages == Max(1, Ceil(Len(invoice.productLines), itemsPerPDFPage))
  IN [p \in 1..totalPDFPages |->
        LET pageNum == p - 1
            startIdx == pageNum * itemsPerPDFPage
            endIdx == Min(startIdx + itemsPerPDFPage, Len(invoice.productLines))
            pageItems == SubSeq(invoice.productLines, startIdx + 1, endIdx)
        IN [header |-> pageNum = 0, tableHeader |-> TRUE,
            rows |-> renderTable(pageItems),
            footer |-> pageNum = totalPDFPages - 1]]

\* lines 714-723 with pdfMode false
renderSinglePage ==
  <<[header |-> TRUE, tableHeader |-> TRUE,
     rows |-> renderTable(getCurrentPageItems), footer |-> TRUE]>>

\* lines 725-729: one render, with the state it closed over
RenderView ==
  [mounted |-> TRUE,
   pages |-> IF pdfMode THEN renderPDFPages ELSE renderSinglePage,
   footer |-> renderFooter,
   invoice |-> invoice, subTotal |-> subTotal, saleTax |-> saleTax,
   currentPage |-> currentPage, totalPages |-> totalPages]

Render ==
  /\ phase = "render"
  /\ view' = RenderView
  /\ phase' = "effects"
  /\ UNCHANGED <<pdfMode, invoice, subTotal, saleTax, qrCodeDataUrl, currentPage,
                 totalPages, lastDeps, pending, nEdits>>

(***************************************************************************)
(* The effects of a render, in the order of the source.  Each effect reads *)
(* the state its render closed over, which is the current state: nothing   *)
(* changes the state between a render and its effects.  An effect runs     *)
(* after the first render and after every render that changed one of its   *)
(* dependencies.                                                           *)
(***************************************************************************)
FlushEffects ==
  /\ phase = "effects"
  /\ LET first == ~lastDeps.mounted
         pages == invoice.pageProductLines
         \* lines 44-48
         runInit == first /\ Len(pages) = 0
         \* lines 51-58
         runTotal == first \/ lastDeps.pages # pages \/ lastDeps.totalPages # totalPages
         newTotalPages == IF runTotal /\ Len(pages) > totalPages
                          THEN Len(pages) ELSE totalPages
         \* lines 194-211
         runSub == first \/ lastDeps.pages # pages
         throws == runSub /\ \E i \in 1..Len(pages) : ~pages[i].defined
         newSubTotal == IF runSub THEN SumPages(pages, Zero) ELSE subTotal
         \* lines 213-219
         runTax == first \/ lastDeps.subTotal # subTotal
                         \/ lastDeps.taxLabel # invoice.taxLabel
         newSaleTax == IF runTax THEN SaleTaxOf(subTotal, invoice.taxLabel) ELSE saleTax
         \* lines 227-259
         runQr == (first \/ lastDeps.qr # QrDeps)
                  /\ invoice.iban # <<>> /\ invoice.bic # <<>> /\ Truthy(subTotal)
     IN IF throws
        THEN /\ phase' = "crashed"
             /\ view' = NoView
             /\ UNCHANGED <<invoice, subTotal, saleTax, totalPages, lastDeps, pending>>
        ELSE /\ invoice' = IF runInit
                           THEN [invoice EXCEPT !.pageProductLines = <<PageOf(<<>>)>>]
                           ELSE invoice
             /\ totalPages' = newTotalPages
             /\ subTotal' = newSubTotal
             /\ saleTax' = newSaleTax
             /\ pending' = IF runQr THEN Append(pending, qrData(invoice, subTotal))
                           ELSE pending
             /\ lastDeps' = Deps(TRUE)
             /\ phase' = IF runInit \/ newTotalPages # totalPages
                            \/ newSubTotal # subTotal \/ newSaleTax # saleTax
                         THEN "render" ELSE "idle"
             /\ UNCHANGED view
  /\ UNCHANGED <<pdfMode, qrCodeDataUrl, currentPage, nEdits>>

(***************************************************************************)
(* QRCode.toDataURL settles: any pending encode, in any order.             *)
(***************************************************************************)
RemoveAt(seq, i) == SubSeq(seq, 1, i - 1) \o SubSeq(seq, i + 1, Len(seq))

\* line 256: .then(url => setQrCodeDataUrl(url))
EncodeResolved ==
  /\ phase = "idle"
  /\ \E i \in 1..Len(pending) :
       /\ qrCodeDataUrl' = DataURL(pending[i])
       /\ pending' = RemoveAt(pending, i)
       /\ phase' = IF DataURL(pending[i]) # qrCodeDataUrl THEN "render" ELSE "idle"
  /\ UNCHANGED <<pdfMode, invoice, subTotal, saleTax, currentPage, totalPages,
                 lastDeps, view, nEdits>>

\* EncodeRejected with a fault: a failed encode clears the retained image
EncodeRejected_ClearsImage ==
  /\ phase = "idle"
  /\ \E i \in 1..Len(pending) : pending' = RemoveAt(pending, i)
  /\ qrCodeDataUrl' = <<>>
  /\ UNCHANGED <<pdfMode, invoice, subTotal, saleTax, currentPage,
                 totalPages, phase, lastDeps, view, nEdits>>

\* line 257: .catch(err => console.error(...))
EncodeRejected ==
  /\ phase = "idle"
  /\ \E i \in 1..Len(pending) : pending' = RemoveAt(pending, i)
  /\ UNCHANGED <<pdfMode, invoice, subTotal, saleTax, qrCodeDataUrl, currentPage,
                 totalPages, phase, lastDeps, view, nEdits>>

(***************************************************************************)
(* The handlers.  The inputs and buttons exist in edit mode only, and a    *)
(* user event is served once the renders and effects of the last one are   *)
(* done, so a handler's closure holds the current state.                   *)
(***************************************************************************)
UserEvent ==
  /\ ~pdfMode
  /\ phase = "idle"
  /\ nEdits < MaxEdits
  /\ Len(pending) < MaxPending
  /\ nEdits' = nEdits + 1

\* lines 116-128, for the text fields
handleChange(name, value) ==
  /\ UserEvent
  /\ invoice' = [invoice EXCEPT ![name] = value]
  /\ phase' = "render"
  /\ UNCHANGED <<pdfMode, subTotal, saleTax, qrCodeDataUrl, currentPage, totalPages,
                 lastDeps, view, pending>>

\* StoredText with a fault: only a text that ends in a period is preserved
StoredText_PeriodOnly(value) ==
  IF Len(value) > 0 /\ value[Len(value)] = "."
  THEN value
  ELSE LET n == ParseFloat(value)
       IN Replace(NumToString(IF Truthy(n) THEN n ELSE Zero), ".", ",")

\* lines 146-154: the text stored for a typed quantity or rate
StoredText(value) ==
  IF Len(value) > 0
     /\ (value[Len(value)] = "."
         \/ (value[Len(value)] = "0" /\ Includes(value, ".")))
  THEN value
  ELSE LET n == ParseFloat(value)
       IN Replace(NumToString(IF Truthy(n) THEN n ELSE Zero), ".", ",")

\* lines 134-136 and 178-180: the selected page, made an empty page if
\* the array has nothing at its index
Materialized(pages, pageIndex) ==
  IF ~HasPage(pages, pageIndex) THEN SetAt(pages, pageIndex, PageOf(<<>>)) ELSE pages

\* lines 130-161
handleProductLineChange(index, name, value) ==
  /\ UserEvent
  /\ LET pageIndex == currentPage - 1
         newPageProductLines == Materialized(invoice.pageProductLines, pageIndex)
         pageItems == newPageProductLines[pageIndex + 1].items
     IN IF index + 1 \in 1..Len(pageItems)
        THEN LET newProductLine ==
                   [pageItems[index + 1] EXCEPT
                      ![name] = IF name = "description" THEN value
                                ELSE StoredText(value)]
                 newItems == [pageItems EXCEPT ![index + 1] = newProductLine]
             IN /\ invoice' = [invoice EXCEPT !.pageProductLines =
                                 SetAt(newPageProductLines, pageIndex, PageOf(newItems))]
                /\ phase' = "render"
        ELSE UNCHANGED <<invoice, phase>>
  /\ UNCHANGED <<pdfMode, subTotal, saleTax, qrCodeDataUrl, currentPage, totalPages,
                 lastDeps, view, pending>>

\* handleRemove with a fault: the items from position i on are removed
handleRemove_Truncates(i) ==
  /\ UserEvent
  /\ LET pageIndex == currentPage - 1
         newPageProductLines == invoice.pageProductLines
     IN IF HasPage(newPageProductLines, pageIndex)
        THEN LET old == newPageProductLines[pageIndex + 1].items
                 pageItems == IF i \in 0..(Len(old) - 1) THEN SubSeq(old, 1, i) ELSE old
             IN /\ invoice' = [invoice EXCEPT !.pageProductLines =
                                 SetAt(newPageProductLines, pageIndex, PageOf(pageItems))]
                /\ phase' = "render"
        ELSE UNCHANGED <<invoice, phase>>
  /\ UNCHANGED <<pdfMode, subTotal, saleTax, qrCodeDataUrl, currentPage, totalPages,
                 lastDeps, view, pending>>

\* lines 163-172
handleRemove(i) ==
  /\ UserEvent
  /\ LET pageIndex == currentPage - 1
         newPageProductLines == invoice.pageProductLines
     IN IF HasPage(newPageProductLines, pageIndex)
        THEN LET old == newPageProductLines[pageIndex + 1].items
                 \* filter((_, index) => index !== i)
                 kept == {j \in 1..Len(old) : j - 1 # i}
                 pageItems == [k \in 1..Cardinality(kept) |->
                                old[CHOOSE j \in kept :
                                      Cardinality({l \in kept : l < j}) = k - 1]]
             IN /\ invoice' = [invoice EXCEPT !.pageProductLines =
                                 SetAt(newPageProductLines, pageIndex, PageOf(pageItems))]
                /\ phase' = "render"
        ELSE UNCHANGED <<invoice, phase>>
  /\ UNCHANGED <<pdfMode, subTotal, saleTax, qrCodeDataUrl, currentPage, totalPages,
                 lastDeps, view, pending>>

\* handleAdd with a fault: the line is added to the first page
handleAdd_FirstPage ==
  /\ UserEvent
  /\ LET newPageProductLines == Materialized(invoice.pageProductLines, 0)
     IN /\ Len(newPageProductLines[1].items) < MaxLines
        /\ invoice' = [invoice EXCEPT !.pageProductLines =
                         SetAt(newPageProductLines, 0,
                               PageOf(Append(newPageProductLines[1].items,
                                             initialProductLine)))]
  /\ phase' = "render"
  /\ UNCHANGED <<pdfMode, subTotal, saleTax, qrCodeDataUrl, currentPage, totalPages,
                 lastDeps, view, pending>>

\* lines 174-184
handleAdd ==
  /\ UserEvent
  /\ LET pageIndex == currentPage - 1
         newPageProductLines == Materialized(invoice.pageProductLines, pageIndex)
     IN /\ Len(newPageProductLines[pageIndex + 1].items) < MaxLines
        /\ invoice' = [invoice EXCEPT !.pageProductLines =
                         SetAt(newPageProductLines, pageIndex,
                               PageOf(Append(newPageProductLines[pageIndex + 1].items,
                                             initialProductLine)))]
  /\ phase' = "render"
  /\ UNCHANGED <<pdfMode, subTotal, saleTax, qrCodeDataUrl, currentPage, totalPages,
                 lastDeps, view, pending>>

\* handleAddPage with a fault: the new page holds a copy of the items of
\* the page before it
handleAddPage_CopiesLastPage ==
  /\ UserEvent
  /\ Len(invoice.pageProductLines) < MaxPages
  /\ invoice' = [invoice EXCEPT !.pageProductLines =
                   Append(@, IF @ = <<>> THEN PageOf(<<>>) ELSE @[Len(@)])]
  /\ totalPages' = totalPages + 1
  /\ currentPage' = totalPages + 1
  /\ phase' = "render"
  /\ UNCHANGED <<pdfMode, subTotal, saleTax, qrCodeDataUrl, lastDeps, view, pending>>

\* handleAddPage with a fault: the new page is put before the others
handleAddPage_Prepends ==
  /\ UserEvent
  /\ Len(invoice.pageProductLines) < MaxPages
  /\ invoice' = [invoice EXCEPT !.pageProductLines = <<PageOf(<<>>)>> \o @]
  /\ totalPages' = totalPages + 1
  /\ currentPage' = totalPages + 1
  /\ phase' = "render"
  /\ UNCHANGED <<pdfMode, subTotal, saleTax, qrCodeDataUrl, lastDeps, view, pending>>

\* handleAddPage with a fault: the page that was last stays selected
handleAddPage_SelectsOldLastPage ==
  /\ UserEvent
  /\ Len(invoice.pageProductLines) < MaxPages
  /\ invoice' = [invoice EXCEPT !.pageProductLines = Append(@, PageOf(<<>>))]
  /\ totalPages' = totalPages + 1
  /\ currentPage' = totalPages
  /\ phase' = "render"
  /\ UNCHANGED <<pdfMode, subTotal, saleTax, qrCodeDataUrl, lastDeps, view, pending>>

\* lines 70-77
handleAddPage ==
  /\ UserEvent
  /\ Len(invoice.pageProductLines) < MaxPages
  /\ invoice' = [invoice EXCEPT !.pageProductLines = Append(@, PageOf(<<>>))]
  /\ totalPages' = totalPages + 1
  /\ currentPage' = totalPages + 1
  /\ phase' = "render"
  /\ UNCHANGED <<pdfMode, subTotal, saleTax, qrCodeDataUrl, lastDeps, view, pending>>

\* lines 79-81; the buttons of lines 522-535 offer the pages 1..totalPages
handlePageChange(page) ==
  /\ UserEvent
  /\ view.footer.navPages > 0
  /\ page \in 1..view.footer.navPages
  /\ currentPage' = page
  /\ phase' = IF page # currentPage THEN "render" ELSE "idle"
  /\ UNCHANGED <<pdfMode, invoice, subTotal, saleTax, qrCodeDataUrl, totalPages,
                 lastDeps, view, pending>>

\* line 717: <Download data={invoice} /> renders an InvoicePage in pdfMode
\* with the invoice of the editor as its data
Download ==
  /\ ~pdfMode
  /\ phase = "idle"
  /\ LET st == Mount(invoice, TRUE)
     IN /\ pdfMode' = st.pdfMode
        /\ invoice' = st.invoice
        /\ subTotal' = st.subTotal
        /\ saleTax' = st.saleTax
        /\ qrCodeDataUrl' = st.qrCodeDataUrl
        /\ currentPage' = st.currentPage
        /\ totalPages' = st.totalPages
        /\ lastDeps' = st.lastDeps
  /\ phase' = "render"
  /\ view' = NoView
  /\ pending' = <<>>
  /\ UNCHANGED nEdits

\* the rows the last render offers for editing
RowIndexes == IF view.mounted THEN 0..(Len(view.pages[1].rows) - 1) ELSE {}

Next ==
  \/ Render
  \/ FlushEffects
  \/ EncodeResolved
  \/ EncodeRejected
  \/ \E edit \in FieldEdits : handleChange(edit[1], edit[2])
  \/ \E index \in RowIndexes, value \in QuantityTexts :
       handleProductLineChange(index, "quantity", value)
  \/ \E index \in RowIndexes, value \in RateTexts :
       handleProductLineChange(index, "rate", value)
  \/ \E index \in RowIndexes, value \in DescriptionTexts :
       handleProductLineChange(index, "description", value)
  \/ \E i \in RowIndexes : handleRemove(i)
  \/ handleAdd
  \/ handleAddPage
  \/ \E page \in 1..MaxPages : handlePageChange(page)
  \/ Download

Spec == Init /\ [][Next]_vars

(***************************************************************************)
(* The reach of the number model.  toFixed rounds the binary value of a    *)
(* number, so a decimal that lies exactly halfway between two hundredths   *)
(* is rounded by the sign of its representation error, which ToFixed2 does *)
(* not model.  No number of this model that reaches toFixed is such a      *)
(* decimal: every other decimal is rounded alike by both.                  *)
(***************************************************************************)
Halfway(x) == x.k = "num" /\ x.e = 3 /\ x.m % 10 = 5

PaymentTotal(sub) == Add(sub, Mul(sub, PaymentTaxRate))

NoHalfway ==
  /\ ~Halfway(subTotal)
  /\ ~Halfway(saleTax)
  /\ subTotal.k = "num" /\ saleTax.k = "num" => ~Halfway(Add(subTotal, saleTax))
  /\ subTotal.k = "num" => ~Halfway(PaymentTotal(subTotal))
  /\ \A p \in 1..Len(invoice.pageProductLines) :
       \A i \in 1..Len(invoice.pageProductLines[p].items) :
         ~Halfway(LineAmount(invoice.pageProductLines[p].items[i]))

(***************************************************************************)
(* The reach of the handlers.  A handler runs with the state of a render   *)
(* whose effects are done, and in every such state the selected page is a  *)
(* page of the invoice: the branch of lines 134-136 and 178-180 that makes *)
(* a missing page, and with it the undefined slots of SetAt and the throw  *)
(* of the subtotal effect, is written for a state the editor never is in.  *)
(***************************************************************************)
SelectedPageExists ==
  /\ phase # "crashed"
  /\ (phase = "idle" /\ ~pdfMode)
     => /\ HasPage(invoice.pageProductLines, currentPage - 1)
        /\ \A p \in 1..Len(invoice.pageProductLines) : invoice.pageProductLines[p].defined

\* the Spec whose encodes all succeed: QRCode.toDataURL never rejects
NextEncodesSucceed ==
  \/ Render
  \/ FlushEffects
  \/ EncodeResolved
  \/ \E edit \in FieldEdits : handleChange(edit[1], edit[2])
  \/ \E index \in RowIndexes, value \in QuantityTexts :
       handleProductLineChange(index, "quantity", value)
  \/ \E index \in RowIndexes, value \in RateTexts :
       handleProductLineChange(index, "rate", value)
  \/ \E index \in RowIndexes, value \in DescriptionTexts :
       handleProductLineChange(index, "description", value)
  \/ \E i \in RowIndexes : handleRemove(i)
  \/ handleAdd
  \/ handleAddPage
  \/ \E page \in 1..MaxPages : handlePageChange(page)
  \/ Download

SpecEncodesSucceed == Init /\ [][NextEncodesSucceed]_vars

\* the InvoicePage that is mounted with a loaded invoice, rendered and
\* exported, with no edit
InitLoaded ==
  /\ \E data \in LoadedInvoices, mode \in BOOLEAN :
       LET st == Mount(data, mode)
       IN /\ pdfMode = st.pdfMode
          /\ invoice = st.invoice
          /\ subTotal = st.subTotal
          /\ saleTax = st.saleTax
          /\ qrCodeDataUrl = st.qrCodeDataUrl
          /\ currentPage = st.currentPage
          /\ totalPages = st.totalPages
          /\ lastDeps = st.lastDeps
  /\ phase = "render"
  /\ view = NoView
  /\ pending = <<>>
  /\ nEdits = 0

NextLoaded ==
  \/ Render
  \/ FlushEffects
  \/ EncodeResolved
  \/ EncodeRejected
  \/ Download

SpecLoaded == InitLoaded /\ [][NextLoaded]_vars

\* the editor in which texts are typed into the quantity and the rate of
\* the one line of a draft
InitTyping ==
  /\ LET st == Mount(draftInvoice, FALSE)
     IN /\ pdfMode = st.pdfMode
        /\ invoice = st.invoice
        /\ subTotal = st.subTotal
        /\ saleTax = st.saleTax
        /\ qrCodeDataUrl = st.qrCodeDataUrl
        /\ currentPage = st.currentPage
        /\ totalPages = st.totalPages
        /\ lastDeps = st.lastDeps
  /\ phase = "render"
  /\ view = NoView
  /\ pending = <<>>
  /\ nEdits = 0

NextTyping ==
  \/ Render
  \/ FlushEffects
  \/ \E index \in RowIndexes, value \in TypedTexts :
       handleProductLineChange(index, "quantity", value)
  \/ \E index \in RowIndexes, value \in TypedRateTexts :
       handleProductLineChange(index, "rate", value)

SpecTyping == InitTyping /\ [][NextTyping]_vars

\* the editor of a saved invoice in which handleRemove is called with any
\* index, also one that no row of the page has, among the other page and
\* line operations
RemoveIndexes == (0 - 1)..MaxRemoveIndex

InitRemoving ==
  /\ \E data \in {savedInvoice, listedInvoice} :
       LET st == Mount(data, FALSE)
       IN /\ pdfMode = st.pdfMode
          /\ invoice = st.invoice
          /\ subTotal = st.subTotal
          /\ saleTax = st.saleTax
          /\ qrCodeDataUrl = st.qrCodeDataUrl
          /\ currentPage = st.currentPage
          /\ totalPages = st.totalPages
          /\ lastDeps = st.lastDeps
  /\ phase = "render"
  /\ view = NoView
  /\ pending = <<>>
  /\ nEdits = 0

NextRemoving ==
  \/ Render
  \/ FlushEffects
  \/ EncodeResolved
  \/ \E i \in RemoveIndexes : handleRemove(i)
  \/ \E index \in RowIndexes : handleProductLineChange(index, "quantity", <<"2">>)
  \/ handleAdd
  \/ handleAddPage
  \/ \E page \in 1..MaxPages : handlePageChange(page)

SpecRemoving == InitRemoving /\ [][NextRemoving]_vars

\* the editor in which, beside the typing, a field's stored text is
\* submitted again as its new value
StoredField(name) == invoice.pageProductLines[1].items[1][name]

Resubmit(name) == handleProductLineChange(0, name, StoredField(name))

NextRetyping ==
  \/ Render
  \/ FlushEffects
  \/ \E index \in RowIndexes, value \in TypedTexts :
       handleProductLineChange(index, "quantity", value)
  \/ \E index \in RowIndexes, value \in TypedRateTexts :
       handleProductLineChange(index, "rate", value)
  \/ \E name \in {"quantity", "rate"} : RowIndexes # {} /\ Resubmit(name)

SpecRetyping == InitTyping /\ [][NextRetyping]_vars

(***************************************************************************)
(* What the properties speak of.                                           *)
(***************************************************************************)
\* what a consumer that parses by line position reads: the split at "\n"
RECURSIVE SplitLines(_)
SplitLines(s) ==
  IF ~Includes(s, "\n") THEN <<s>>
  ELSE LET i == CHOOSE j \in 1..Len(s) :
                  s[j] = "\n" /\ \A k \in 1..(j - 1) : s[k] # "\n"
       IN <<SubSeq(s, 1, i - 1)>> \o SplitLines(SubSeq(s, i + 1, Len(s)))

\* the edit-mode QR code of the last render shows a payload
CanvasShown == view.mounted /\ view.footer.qr.kind = "canvas"
CanvasPayload == view.footer.qr.value

\* this step starts an encode
EncodeStarted == Len(pending') > Len(pending)
StartedPayload == pending'[Len(pending')]

IsDigits(t) == \A i \in 1..Len(t) : t[i] \in Digits

\* digits, a period, two digits
TwoDecimals(t) ==
  /\ Len(t) >= 4
  /\ t[Len(t) - 2] = "."
  /\ IsDigits(SubSeq(t, 1, Len(t) - 3))
  /\ IsDigits(SubSeq(t, Len(t) - 1, Len(t)))

\* the number of hundredths a money text shows, with either separator
Hundredths(t) ==
  LET x == ParseFloat(Replace(t, ",", "."))
  IN x.m * Pow10(2 - x.e)

\* x rounded to hundredths, half away from zero, as a number of hundredths
RoundHalfAway(x) ==
  LET mag == IF x.m < 0 THEN 0 - x.m ELSE x.m
      scaled == IF x.e <= 2 THEN mag * Pow10(2 - x.e) * 10
                ELSE mag \div Pow10(x.e - 3)
      n == IF scaled % 10 >= 5 THEN scaled \div 10 + 1 ELSE scaled \div 10
  IN IF x.m < 0 THEN 0 - n ELSE n

\* all line items, in page order then item order
RECURSIVE Flatten(_)
Flatten(pages) == IF pages = <<>> THEN <<>>
                  ELSE Head(pages).items \o Flatten(Tail(pages))

\* the sum of the line amounts of a sequence of items
RECURSIVE FlatSum(_)
FlatSum(items) ==
  IF items = <<>> THEN Zero
  ELSE Add(LineAmount(items[Len(items)]), FlatSum(SubSeq(items, 1, Len(items) - 1)))

\* the ways to group a sequence of items into one, two or three pages
Groupings(items) ==
  LET n == Len(items)
  IN {<<PageOf(items)>>}
     \cup {<<PageOf(SubSeq(items, 1, c)), PageOf(SubSeq(items, c + 1, n))>> :
             c \in 0..n}
     \cup {<<PageOf(SubSeq(items, 1, c[1])), PageOf(SubSeq(items, c[1] + 1, c[2])),
             PageOf(SubSeq(items, c[2] + 1, n))>> :
             c \in {d \in (0..n) \X (0..n) : d[1] <= d[2]}}

(***************************************************************************)
(* Properties.                                                             *)
(***************************************************************************)
\* the 11 lines of a payload built from the invoice inv, in their order
FixedOrder(payload, inv) ==
  LET ls == SplitLines(payload)
  IN /\ Len(ls) = 11
     /\ ls[1] = <<"B", "C", "D">>
     /\ ls[2] = <<"0", "0", "2">>
     /\ ls[3] = <<"1">>
     /\ ls[4] = <<"S", "C", "T">>
     /\ ls[5] = inv.bic
     /\ ls[6] \in {inv.name, inv.companyName}
     /\ ls[7] = inv.iban
     /\ Len(ls[8]) >= 4 /\ ls[8][Len(ls[8]) - 2] = "."
     /\ ls[9] = <<>>
     /\ ls[10] = <<>>
     /\ ls[11] \in {inv.invoiceTitle, TextRechnung}

\* C1: every payload either builder produces (the one shown by the edit-mode
\* QR code, the one handed to the encoder by the QR effect) splits into
\* exactly 11 lines: BCD, 002, 1, SCT, the BIC, the recipient, the IBAN, the
\* amount line, two empty lines, the reference; lines 9 and 10 are empty
\* whatever the fields hold.
C1_FixedElevenLines ==
  /\ [](CanvasShown => FixedOrder(CanvasPayload, view.invoice))
  /\ [][EncodeStarted => FixedOrder(StartedPayload, invoice)]_vars

\* C1 witness: both builders have built a payload, for an invoice whose
\* name and title are empty
C1_Witness ==
  /\ CanvasShown
  /\ Len(pending) > 0
  /\ view.invoice.name = <<>>
  /\ view.invoice.invoiceTitle = <<>>
  /\ SplitLines(pending[1])[9] = <<>>

\* the amount line of a payload is prefix followed by the payment total of
\* sub in hundredths, with a period
AmountLine(payload, prefix, sub) ==
  LET l == SplitLines(payload)[8]
      amount == SubSeq(l, Len(prefix) + 1, Len(l))
  IN /\ Len(l) > Len(prefix)
     /\ SubSeq(l, 1, Len(prefix)) = prefix
     /\ TwoDecimals(amount)
     /\ Hundredths(amount) = RoundHalfAway(PaymentTotal(IF Truthy(sub) THEN sub ELSE Zero))

\* C2 as stated: line 8 of the payload is the text of the invoice's currency
\* field followed by the total with two decimals and a period.
C2_CurrencyFieldInPayload ==
  CanvasShown => AmountLine(CanvasPayload, view.invoice.currency, view.subTotal)

\* C2 as amended: line 8 of every payload is the fixed text EUR followed by
\* the total with two decimals and a period, whatever the currency field
\* holds.
C2_AmountLineIsEUR ==
  /\ [](CanvasShown => AmountLine(CanvasPayload, <<"E", "U", "R">>, view.subTotal))
  /\ [][EncodeStarted => AmountLine(StartedPayload, <<"E", "U", "R">>, subTotal)]_vars

\* C2 witness: a payload is shown while the currency field holds "$"
C2_Witness ==
  /\ CanvasShown
  /\ view.invoice.currency = TextDollar
  /\ Truthy(view.subTotal)

\* C3: once no encode is pending and the editor is at rest, the retained
\* QR image is the encoding of the payload of the current inputs.
C3_LatestEncodeRetained ==
  ( /\ phase = "idle"
    /\ pending = <<>>
    /\ qrCodeDataUrl # <<>>
    /\ invoice.iban # <<>> /\ invoice.bic # <<>> /\ Truthy(subTotal) )
  => qrCodeDataUrl = DataURL(qrData(invoice, subTotal))

\* C4: after a mutation of the invoice, whenever a render shows subtotal
\* and tax, the subtotal is the sum over the invoice that render shows and
\* the tax is that subtotal times the rate of the label that render shows.
C4_NoStaleRender ==
  (nEdits > 0 /\ view.mounted /\ view.subTotal.k = "num" /\ view.saleTax.k = "num")
  => /\ view.subTotal = SumPages(view.invoice.pageProductLines, Zero)
     /\ view.saleTax = SaleTaxOf(view.subTotal, view.invoice.taxLabel)

\* the line items an export shows, in the order of its pages
RECURSIVE ExportedItems(_)
ExportedItems(pdfPages) ==
  IF pdfPages = <<>> THEN <<>>
  ELSE [i \in 1..Len(Head(pdfPages).rows) |->
          [description |-> Head(pdfPages).rows[i].description,
           quantity |-> Head(pdfPages).rows[i].quantity,
           rate |-> Head(pdfPages).rows[i].rate]]
       \o ExportedItems(Tail(pdfPages))

\* C5: the rows of an export of an edited invoice that holds line items are
\* the line items of all its edit-mode pages, in page order then item order.
C5_ExportShowsEditedLines ==
  (pdfMode /\ view.mounted /\ nEdits > 0
   /\ Flatten(view.invoice.pageProductLines) # <<>>)
  => ExportedItems(view.pages) = Flatten(view.invoice.pageProductLines)

\* the number the parser computes for a typed text, line 152-153
EnteredNumber(value) ==
  LET n == ParseFloat(value) IN IF Truthy(n) THEN n ELSE Zero

\* C6: when a quantity or rate is typed, the number the aggregator reads
\* from the stored text is the number the parser computed for the typed
\* text.
C6_StoredTextKeepsValue ==
  [][\A index \in 0..MaxLines, name \in {"quantity", "rate"},
        value \in QuantityTexts \cup RateTexts :
        (handleProductLineChange(index, name, value) /\ phase' = "render")
        => EnteredNumber(invoice'.pageProductLines[currentPage].items[index + 1][name])
           = EnteredNumber(value)]_vars

\* C7: at rest the subtotal is the sum of the line amounts of all items of
\* all pages, and the aggregation gives the same subtotal for every other
\* grouping of the same items into pages.  The other groupings are tried
\* once the encodes have settled: an encode that settles changes neither the
\* invoice nor the subtotal, so these states hold every invoice and subtotal
\* that a state at rest holds.
C7_SubtotalIsSumOverAllPages ==
  phase = "idle"
  => /\ subTotal = FlatSum(Flatten(invoice.pageProductLines))
     /\ pending = <<>>
        => \A g \in Groupings(Flatten(invoice.pageProductLines)) :
             SumPages(g, Zero) = subTotal

\* C7 witness: at rest, with items of non-zero amount on two pages
C7_Witness ==
  /\ phase = "idle"
  /\ Len(invoice.pageProductLines) = 2
  /\ \A p \in 1..2 : \E i \in 1..Len(invoice.pageProductLines[p].items) :
       Truthy(LineAmount(invoice.pageProductLines[p].items[i]))
  /\ Truthy(subTotal)

\* C8: whenever subtotal, tax and total are shown, the total shown is the
\* subtotal shown plus the tax shown.
C8_ShownTotalIsShownSum ==
  (view.mounted /\ view.footer.subTotalText # <<>> /\ view.footer.saleTaxText # <<>>)
  => Hundredths(view.footer.totalText)
     = Hundredths(view.footer.subTotalText) + Hundredths(view.footer.saleTaxText)

\* the number a stored quantity or rate stands for in its locale format,
\* where the comma is the decimal separator
LocaleNumber(t) == ParseFloat(Replace(t, ",", "."))

\* C9: the amount shown for a line is quantity times rate, rounded half
\* away from zero to hundredths, and 0 when either is non-numeric or zero.
C9_LineAmountIsRoundedProduct ==
  (view.mounted /\ ~pdfMode)
  => \A i \in 1..Len(view.pages[1].rows) :
       LET row == view.pages[1].rows[i]
           q == LocaleNumber(row.quantity)
           r == LocaleNumber(row.rate)
       IN Hundredths(row.amount)
          = IF Truthy(q) /\ Truthy(r) THEN RoundHalfAway(Mul(q, r)) ELSE 0

\* the amount text of a payload
PayloadAmount(payload) ==
  LET l == SplitLines(payload)[8] IN SubSeq(l, 4, Len(l))

\* C10: the amount of every payload is the subtotal plus 0.19 times the
\* subtotal, whatever the tax label holds, and an edit of the tax label
\* leaves the payload of the edit-mode QR code as it was.
C10_PayloadAmountIgnoresLabel ==
  /\ [](CanvasShown =>
          PayloadAmount(CanvasPayload)
          = ToFixed2(Num(119 * (IF Truthy(view.subTotal) THEN view.subTotal.m ELSE 0),
                         (IF Truthy(view.subTotal) THEN view.subTotal.e ELSE 0) + 2)))
  /\ [][EncodeStarted =>
          PayloadAmount(StartedPayload)
          = ToFixed2(Num(119 * subTotal.m, subTotal.e + 2))]_vars
  /\ [][(CanvasShown /\ phase' = "effects" /\ view'.footer.qr.kind = "canvas"
         /\ view'.subTotal = view.subTotal)
        => PayloadAmount(view'.footer.qr.value) = PayloadAmount(CanvasPayload)]_vars

\* C10 witness: a payload is shown under a label of 7%, and its amount is
\* not the total the footer shows
C10_Witness ==
  /\ CanvasShown
  /\ view.invoice.taxLabel = LabelVat7
  /\ Truthy(view.subTotal)
  /\ view.saleTax = SaleTaxOf(view.subTotal, LabelVat7)
  /\ Hundredths(PayloadAmount(CanvasPayload)) # Hundredths(view.footer.totalText)

\* the export of the last render shows a QR image
ImageShown == view.mounted /\ view.footer.qr.kind = "image"

\* C11: the edit-mode QR code shows a payload exactly when IBAN and BIC are
\* both non-empty, and an export at rest whose encodes have all succeeded
\* shows the QR image exactly when IBAN and BIC are both non-empty.
C11_PayloadIffBankingFields ==
  /\ (view.mounted /\ ~pdfMode)
     => (CanvasShown <=> (view.invoice.iban # <<>> /\ view.invoice.bic # <<>>))
  /\ (pdfMode /\ phase = "idle" /\ pending = <<>>)
     => (ImageShown <=> (invoice.iban # <<>> /\ invoice.bic # <<>>))

\* lines 6 and 11 of a payload built from the invoice inv
RecipientAndReference(payload, inv) ==
  LET ls == SplitLines(payload)
  IN /\ Len(ls) = 11
     /\ ls[6] = IF inv.name # <<>> THEN inv.name ELSE inv.companyName
     /\ ls[11] = IF inv.invoiceTitle # <<>> THEN inv.invoiceTitle ELSE TextRechnung

\* C12: in every payload line 6 is the name when it is non-empty, otherwise
\* the company name, otherwise an empty line that is still line 6; line 11
\* is the invoice title when it is non-empty and "Rechnung" otherwise.
C12_RecipientAndReference ==
  /\ [](CanvasShown => RecipientAndReference(CanvasPayload, view.invoice))
  /\ [][EncodeStarted => RecipientAndReference(StartedPayload, invoice)]_vars

\* C12 witness: a payload is shown for an invoice without name, company
\* name and title: line 6 is empty and line 11 is the literal
C12_Witness ==
  /\ CanvasShown
  /\ view.invoice.name = <<>> /\ view.invoice.companyName = <<>>
  /\ view.invoice.invoiceTitle = <<>>
  /\ Len(SplitLines(CanvasPayload)) = 11
  /\ SplitLines(CanvasPayload)[6] = <<>>
  /\ SplitLines(CanvasPayload)[11] = TextRechnung

\* the mid-edit shape as stated: the text ends in a period, or in one zero
\* directly after a period
EndsInSeparatorOrSeparatorZero(value) ==
  /\ Len(value) > 0
  /\ \/ value[Len(value)] = "."
     \/ Len(value) >= 2 /\ value[Len(value)] = "0" /\ value[Len(value) - 1] = "."

\* the mid-edit shape as amended: the text ends in a period, or ends in a
\* zero and holds a period anywhere
EndsInPeriodOrZeroAfterPeriod(value) ==
  /\ Len(value) > 0
  /\ \/ value[Len(value)] = "."
     \/ value[Len(value)] = "0" /\ Includes(value, ".")

\* the normalized text of a typed text: its number, 0 if it has none, with
\* a comma in place of the period
NormalText(value) == Replace(NumToString(EnteredNumber(value)), ".", ",")

\* the text of the field name of line 0 of the selected page after a step
StoredAfter(name) == invoice'.pageProductLines[currentPage].items[1][name]

\* C13 as stated: a typed quantity or rate is stored unmodified if it ends
\* in a period or in one zero directly after a period, and the aggregator
\* then reads its best-effort number; every other text is stored
\* normalized.
C13_PreservedIffSeparatorOrSeparatorZero ==
  [][\A name \in {"quantity", "rate"}, value \in TypedTexts :
        (handleProductLineChange(0, name, value) /\ phase' = "render")
        => IF EndsInSeparatorOrSeparatorZero(value)
           THEN /\ StoredAfter(name) = value
                /\ ParseFloat(StoredAfter(name)) = ParseFloat(value)
           ELSE StoredAfter(name) = NormalText(value)]_vars

\* C13 as amended: a typed quantity or rate is stored unmodified if it ends
\* in a period, or ends in a zero and holds a period anywhere, and the
\* aggregator then reads its best-effort number; every other text is stored
\* normalized.
C13_PreservedIffPeriodOrZeroAfterPeriod ==
  [][\A name \in {"quantity", "rate"}, value \in TypedTexts :
        (handleProductLineChange(0, name, value) /\ phase' = "render")
        => IF EndsInPeriodOrZeroAfterPeriod(value)
           THEN /\ StoredAfter(name) = value
                /\ ParseFloat(StoredAfter(name)) = ParseFloat(value)
           ELSE StoredAfter(name) = NormalText(value)]_vars

\* C13 witness: "12." is kept in the quantity field and the subtotal at
\* rest is 12 times the rate 2
C13_Witness ==
  /\ phase = "idle"
  /\ invoice.pageProductLines[1].items[1].quantity = <<"1", "2", ".">>
  /\ invoice.pageProductLines[1].items[1].rate = <<"2">>
  /\ subTotal = Num(24, 0)

\* a number in comma format: a sign or none, digits, and a comma with
\* digits or none
CommaNumber(t) ==
  LET u == IF Len(t) > 0 /\ t[1] = "-" THEN Tail(t) ELSE t
      ni == DigitRun(u, 1)
  IN /\ ni > 0
     /\ \/ ni = Len(u)
        \/ /\ u[ni + 1] = ","
           /\ ni + 1 < Len(u)
           /\ IsDigits(SubSeq(u, ni + 2, Len(u)))

\* C14: a typed quantity or rate that is not of the mid-edit shape is
\* stored, with no error and with a new snapshot, as a number in comma
\* format that stands for the number parsed from the typed text, and as
\* "0" when the text is empty, unparsable or zero.
C14_NormalizedIsCommaNumber ==
  [][\A name \in {"quantity", "rate"}, value \in TypedTexts :
        (handleProductLineChange(0, name, value)
         /\ ~EndsInPeriodOrZeroAfterPeriod(value))
        => /\ phase' = "render"
           /\ CommaNumber(StoredAfter(name))
           /\ LocaleNumber(StoredAfter(name)) = EnteredNumber(value)
           /\ ~Truthy(ParseFloat(value)) => StoredAfter(name) = <<"0">>]_vars

\* the number of digits that end directly before position j of label
RECURSIVE DigitsBefore(_, _)
DigitsBefore(label, j) ==
  IF j > 1 /\ label[j - 1] \in Digits THEN 1 + DigitsBefore(label, j - 1) ELSE 0

\* the rate a label states: the digits before its first "%" that follows a
\* digit, 0 if it has none
RatePercent(label) ==
  LET ends == {j \in 1..Len(label) : label[j] = "%" /\ DigitsBefore(label, j) > 0}
  IN IF ends = {} THEN 0
     ELSE LET j == CHOOSE k \in ends : \A l \in ends : k <= l
          IN DigitsVal(label, j - DigitsBefore(label, j), DigitsBefore(label, j))

\* C15: the rate read from "VAT 19%" is 19, from "no tax" 0 and from
\* "7% off, 19% VAT" 7, and at rest the tax is the subtotal times the rate
\* the label states, divided by 100.
C15_RateIsFirstPercentRun ==
  /\ TaxRate(LabelVat19) = Num(19, 0)
  /\ TaxRate(LabelNoTax) = Zero
  /\ TaxRate(LabelTwoRates) = Num(7, 0)
  /\ phase = "idle"
     => saleTax = Num(subTotal.m * RatePercent(invoice.taxLabel), subTotal.e + 2)

\* C15 witness: at rest under the label "7% off, 19% VAT", with a subtotal
\* of 6 and a tax of 0.42
C15_Witness ==
  /\ phase = "idle"
  /\ invoice.taxLabel = LabelTwoRates
  /\ subTotal = Num(6, 0)
  /\ saleTax = Num(42, 2)

\* this step is an add line, an edit line or a remove line
LineOperation ==
  \/ handleAdd
  \/ \E i \in RowIndexes : handleRemove(i)
  \/ \E index \in RowIndexes, value \in QuantityTexts :
       handleProductLineChange(index, "quantity", value)
  \/ \E index \in RowIndexes, value \in RateTexts :
       handleProductLineChange(index, "rate", value)
  \/ \E index \in RowIndexes, value \in DescriptionTexts :
       handleProductLineChange(index, "description", value)

\* the fields of an invoice other than its pages
HeaderFields == {"name", "companyName", "iban", "bic", "invoiceTitle", "taxLabel",
                 "currency", "productLines"}

\* C17: an add line, edit line or remove line leaves the number of pages,
\* every page other than the selected one, the selected page number and
\* every header, party, label and banking field as they were.
C17_LineOperationsTouchSelectedPageOnly ==
  [][LineOperation
     => /\ Len(invoice'.pageProductLines) = Len(invoice.pageProductLines)
        /\ \A p \in 1..Len(invoice.pageProductLines) :
             p # currentPage => invoice'.pageProductLines[p] = invoice.pageProductLines[p]
        /\ \A f \in HeaderFields : invoice'[f] = invoice[f]
        /\ currentPage' = currentPage]_vars

\* C17 witness: the second page of the saved invoice was changed while its
\* first page and its fields are as they were
C17_Witness ==
  /\ phase = "idle" /\ ~pdfMode
  /\ currentPage = 2
  /\ Len(invoice.pageProductLines) = 2
  /\ invoice.pageProductLines[1] = savedInvoice.pageProductLines[1]
  /\ invoice.pageProductLines[2] # savedInvoice.pageProductLines[2]
  /\ \A f \in HeaderFields : invoice[f] = savedInvoice[f]

\* after this step subtotal and tax are what they were, and they are what
\* the effects compute from the invoice of this step
TotalsStay ==
  /\ subTotal' = subTotal
  /\ saleTax' = saleTax
  /\ SumPages(invoice'.pageProductLines, Zero) = subTotal
  /\ SaleTaxOf(subTotal, invoice'.taxLabel) = saleTax
  /\ MoneyText(Add(subTotal', saleTax')) = MoneyText(Add(subTotal, saleTax))

\* C18: a page switch leaves the invoice as it was, and a page switch and
\* an add page leave subtotal, tax and total as they were, also after the
\* effects have run on the new state.
C18_PagingKeepsTotals ==
  /\ [][(\E page \in 1..MaxPages : handlePageChange(page))
        => (invoice' = invoice /\ TotalsStay)]_vars
  /\ [][handleAddPage => TotalsStay]_vars
  /\ [][(FlushEffects /\ lastDeps.mounted
         /\ \/ lastDeps.pages = invoice.pageProductLines
            \/ invoice.pageProductLines = Append(lastDeps.pages, PageOf(<<>>)))
        => subTotal' = subTotal]_vars

\* C18 witness: a page was added to the saved invoice and selected, and at
\* rest subtotal and tax are those of the saved invoice
C18_Witness ==
  /\ phase = "idle" /\ ~pdfMode
  /\ invoice.pageProductLines = Append(savedInvoice.pageProductLines, PageOf(<<>>))
  /\ currentPage = 3
  /\ subTotal = Num(6, 0)
  /\ saleTax = Num(114, 2)

\* C19: once the editor is mounted the number of pages changes by an add
\* page only, which appends one empty page to the pages as they were, and
\* an add line leaves the number of pages as it was and adds one item to
\* the selected page.
C19_PagesChangeByAddPageOnly ==
  /\ [][(~pdfMode /\ ~pdfMode' /\ lastDeps.mounted
         /\ Len(invoice'.pageProductLines) # Len(invoice.pageProductLines))
        => /\ handleAddPage
           /\ invoice'.pageProductLines
              = Append(invoice.pageProductLines, PageOf(<<>>))]_vars
  /\ [][handleAddPage
        => invoice'.pageProductLines = Append(invoice.pageProductLines, PageOf(<<>>))]_vars
  /\ [][handleAdd
        => /\ Len(invoice'.pageProductLines) = Len(invoice.pageProductLines)
           /\ Len(Flatten(invoice'.pageProductLines))
              = Len(Flatten(invoice.pageProductLines)) + 1]_vars

\* C19 witness: a page was added to the saved invoice and two lines were
\* added to it: three pages, the first two as they were
C19_Witness ==
  /\ phase = "idle" /\ ~pdfMode
  /\ Len(invoice.pageProductLines) = 3
  /\ SubSeq(invoice.pageProductLines, 1, 2) = savedInvoice.pageProductLines
  /\ invoice.pageProductLines[3].items = <<initialProductLine, initialProductLine>>

\* C20: an export of N chunked items has one page when N = 0 and otherwise
\* the number of pages n with 20 * (n - 1) < N <= 20 * n; every page but
\* the last holds 20 items, the last holds 1 to 20 items when N > 0, and
\* the chunks in page order are the chunked sequence.
C20_ExportChunks ==
  (pdfMode /\ view.mounted)
  => LET N == Len(view.invoice.productLines)
         n == Len(view.pages)
     IN /\ n >= 1
        /\ N = 0 => (n = 1 /\ view.pages[1].rows = <<>>)
        /\ N > 0 => (20 * (n - 1) < N /\ N <= 20 * n)
        /\ \A p \in 1..(n - 1) : Len(view.pages[p].rows) = 20
        /\ N > 0 => Len(view.pages[n].rows) \in 1..20
        /\ ExportedItems(view.pages) = view.invoice.productLines

\* C20 witness: an export of 21 items has a page of 20 and a page of 1
C20_Witness ==
  /\ pdfMode /\ view.mounted
  /\ Len(view.invoice.productLines) = 21
  /\ Len(view.pages) = 2
  /\ Len(view.pages[1].rows) = 20
  /\ Len(view.pages[2].rows) = 1

\* the rows of a table are the items of a chunk, in the chunk's order
RowsOf(rows, chunk) ==
  /\ Len(rows) = Len(chunk)
  /\ \A i \in 1..Len(chunk) :
       /\ rows[i].description = chunk[i].description
       /\ rows[i].quantity = chunk[i].quantity
       /\ rows[i].rate = chunk[i].rate

\* C21: in an export the header section is on the first page and on no
\* other, the footer section is on the last page and on no other, and every
\* page has the table header row and the rows of its chunk of 20 items; a
\* single export page carries both the header and the footer.
C21_HeaderFirstFooterLast ==
  (pdfMode /\ view.mounted)
  => LET n == Len(view.pages)
         lines == view.invoice.productLines
     IN /\ n >= 1
        /\ \A p \in 1..n :
             /\ view.pages[p].header <=> (p = 1)
             /\ view.pages[p].footer <=> (p = n)
             /\ view.pages[p].tableHeader
             /\ RowsOf(view.pages[p].rows,
                       SubSeq(lines, 20 * (p - 1) + 1, Min(20 * p, Len(lines))))
        /\ n = 1 => (view.pages[1].header /\ view.pages[1].footer)

\* C21 witness: an export of three pages, whose middle page has the table
\* and neither the header nor the footer
C21_Witness ==
  /\ pdfMode /\ view.mounted
  /\ Len(view.pages) = 3
  /\ view.pages[1].header /\ ~view.pages[1].footer
  /\ ~view.pages[2].header /\ ~view.pages[2].footer
  /\ Len(view.pages[2].rows) = 20
  /\ view.pages[3].footer

\* C22: whenever the editor is at rest, totalPages is the number of pages
\* of the invoice, the page buttons shown are those of totalPages (none for
\* a single page), and 1 <= currentPage <= number of pages; an add page
\* selects the page it appended.
C22_PageCountAndSelection ==
  /\ [](phase = "idle"
        => /\ totalPages = Len(invoice.pageProductLines)
           /\ currentPage >= 1
           /\ currentPage <= Len(invoice.pageProductLines)
           /\ ~pdfMode => view.footer.navPages
                           = (IF totalPages > 1 THEN totalPages ELSE 0))
  /\ [][handleAddPage
        => /\ invoice'.pageProductLines
              = Append(invoice.pageProductLines, PageOf(<<>>))
           /\ currentPage' = Len(invoice'.pageProductLines)
           /\ totalPages' = Len(invoice'.pageProductLines)]_vars

\* C22 witness: at rest after an add page on the saved invoice and a switch
\* back to its first page: three pages, three page buttons, page 1 selected
C22_Witness ==
  /\ phase = "idle" /\ ~pdfMode
  /\ invoice.pageProductLines = Append(savedInvoice.pageProductLines, PageOf(<<>>))
  /\ totalPages = 3
  /\ view.footer.navPages = 3
  /\ currentPage = 1

\* C23: for the same invoice and subtotal the payload of generateSepaQRData
\* and the payload built inside the QR effect are the same text: in every
\* state the two builders agree, every encode is started with the text
\* generateSepaQRData gives, and an encode started from the state a shown
\* edit-mode code was rendered from is started with the text of that code.
C23_SamePayloadInEditAndExport ==
  /\ [](qrData(invoice, subTotal) = generateSepaQRData(invoice, subTotal))
  /\ [][EncodeStarted
        => StartedPayload = generateSepaQRData(invoice, subTotal)]_vars
  /\ [][(EncodeStarted /\ CanvasShown
         /\ view.invoice = invoice /\ view.subTotal = subTotal)
        => StartedPayload = CanvasPayload]_vars

\* C23 witness: the editor shows a code for a non-zero subtotal and the
\* encode it started for the export has the payload of that code
C23_Witness ==
  /\ ~pdfMode /\ CanvasShown
  /\ Truthy(subTotal)
  /\ view.invoice = invoice /\ view.subTotal = subTotal
  /\ Len(pending) = 1
  /\ pending[1] = CanvasPayload

\* the items of the selected page
SelectedItems == invoice.pageProductLines[currentPage].items

\* C24: a remove line with an index i of the selected page removes the item
\* at position i and keeps the other items of that page in their order; with
\* an index that no item of the page has, the items of the page are as they
\* were; and no step makes the number of pages smaller.
C24_RemoveExactlyOneKeepOrder ==
  /\ [][\A i \in RemoveIndexes :
          handleRemove(i)
          => /\ i \in 0..(Len(SelectedItems) - 1)
                => SelectedItems' = SubSeq(SelectedItems, 1, i)
                                    \o SubSeq(SelectedItems, i + 2, Len(SelectedItems))
             /\ i \notin 0..(Len(SelectedItems) - 1)
                => SelectedItems' = SelectedItems]_vars
  /\ [][Len(invoice'.pageProductLines) >= Len(invoice.pageProductLines)]_vars

\* C24 witness: the middle item of the three of the listed invoice was
\* removed, and the first and the last are left in their order
C24_Witness ==
  /\ phase = "idle" /\ currentPage = 1
  /\ Len(SelectedItems) = 2
  /\ SelectedItems[1] = listedInvoice.pageProductLines[1].items[1]
  /\ SelectedItems[2] = listedInvoice.pageProductLines[1].items[3]

\* a text that the edit of a quantity or a rate stores for some typed text
EditProduced(t) == \E value \in TypedTexts : t = StoredText(value)

\* C25: submitting the stored text of a quantity or a rate again, when it
\* is a text the edit operation produces, leaves the stored text and its numeric value as they
\* were.
C25_ResubmitStoredTextIsIdentity ==
  [][\A name \in {"quantity", "rate"} :
       (EditProduced(StoredField(name)) /\ Resubmit(name))
       => /\ StoredField(name)' = StoredField(name)
          /\ ParseFloat(StoredField(name)') = ParseFloat(StoredField(name))]_vars

\* C26: a failed encode leaves the retained image, the invoice, the
\* subtotal, the tax, the screen and the position of the component as they
\* were, so nothing is thrown to the caller; and whatever encodes failed
\* before, the effects of a render whose recipient, banking fields, title
\* or subtotal changed start an encode of the new payload when IBAN, BIC and
\* subtotal are set.
C26_FailedEncodeChangesNothing ==
  /\ [][EncodeRejected
        => /\ qrCodeDataUrl' = qrCodeDataUrl
           /\ invoice' = invoice
           /\ subTotal' = subTotal
           /\ saleTax' = saleTax
           /\ view' = view
           /\ phase' = phase /\ phase' # "crashed"]_vars
  /\ [][(FlushEffects /\ phase' # "crashed"
         /\ lastDeps.mounted /\ lastDeps.qr # QrDeps
         /\ invoice.iban # <<>> /\ invoice.bic # <<>> /\ Truthy(subTotal))
        => (EncodeStarted /\ StartedPayload = qrData(invoice, subTotal))]_vars

\* C26 witness: the name and the title of the saved invoice were edited and
\* no image was ever retained, yet two encodes are pending, the later one
\* for the invoice as it is: an earlier encode had failed before the second
\* edit, which needs fewer than MaxPending encodes pending, and that edit
\* started a new one
C26_Witness ==
  /\ ~pdfMode /\ phase = "idle"
  /\ qrCodeDataUrl = <<>>
  /\ invoice = [savedInvoice EXCEPT !.name = TextJane, !.invoiceTitle = TextINV1]
  /\ Len(pending) = 2
  /\ pending[2] = qrData(invoice, subTotal)
  /\ pending[1] # pending[2]
  /\ pending[1] # qrData(savedInvoice, subTotal)

====
